---- MODULE Spec2Model ----
(***************************************************************************)
(* A model of the map pages' data code: loadPlaces and setupMapFilters     *)
(* (js/loadPlaces.js) and initializeMap with its parseCSV, fetchData,       *)
(* displayContent and applyFilters (js/map-loader.js).                      *)
(*                                                                         *)
(* JavaScript strings are sequences of one-character strings, so that the  *)
(* string operations of the code (split, trim, replace, toLowerCase,        *)
(* parseFloat) are computed character by character.                         *)
(***************************************************************************)
EXTENDS Integers, Sequences, FiniteSets, TLC

(***************************************************************************)
(* Bounds of the model.                                                    *)
(***************************************************************************)
\* top-level keys of a JSON document
MaxKeys == 2
\* items of a JSON document, all its arrays together
MaxItems == 2
\* events on the controls of a page that calls setupMapFilters
MaxToggles == 2
\* calls of loadPlaces a page makes on its own
MaxLoads == 2

(***************************************************************************)
(* Strings.                                                                *)
(***************************************************************************)
UpperChars ==
  <<"A","B","C","D","E","F","G","H","I","J","K","L","M",
    "N","O","P","Q","R","S","T","U","V","W","X","Y","Z","É","Ã">>

LowerChars ==
  <<"a","b","c","d","e","f","g","h","i","j","k","l","m",
    "n","o","p","q","r","s","t","u","v","w","x","y","z","é","ã">>

toLowerChar(c) ==
  IF \E i \in DOMAIN UpperChars : UpperChars[i] = c
  THEN LowerChars[CHOOSE i \in DOMAIN UpperChars : UpperChars[i] = c]
  ELSE c

\* String.prototype.toLowerCase
toLowerCase(s) ==
  IF s = <<>> THEN <<>> ELSE [i \in 1..Len(s) |-> toLowerChar(s[i])]

IsSpace(c) == c \in {" ", "\t", "\r", "\n"}

RECURSIVE trimStart(_)
trimStart(s) ==
  IF s = <<>> THEN <<>>
  ELSE IF IsSpace(Head(s)) THEN trimStart(Tail(s)) ELSE s

RECURSIVE trimEnd(_)
trimEnd(s) ==
  IF s = <<>> THEN <<>>
  ELSE IF IsSpace(s[Len(s)]) THEN trimEnd(SubSeq(s, 1, Len(s) - 1)) ELSE s

\* String.prototype.trim
trim(s) == trimEnd(trimStart(s))

IsDigit(c) == c \in {"0","1","2","3","4","5","6","7","8","9"}

\* the strings the code names
s_places == <<"p","l","a","c","e","s">>
s_brunchs == <<"b","r","u","n","c","h","s">>
s_pizzerias == <<"p","i","z","z","e","r","i","a","s">>
s_restaurants == <<"r","e","s","t","a","u","r","a","n","t","s">>
s_cafes == <<"c","a","f","e","s">>
s_ville == <<"v","i","l","l","e">>
s_brunch == <<"b","r","u","n","c","h">>
s_pizzeria == <<"p","i","z","z","e","r","i","a">>
s_restaurant == <<"r","e","s","t","a","u","r","a","n","t">>

(***************************************************************************)
(* JavaScript values: undefined, null, numbers (a number is held as its    *)
(* canonical decimal text, NaN apart), strings and arrays of strings.      *)
(***************************************************************************)
Undef == [k |-> "undefined", s |-> <<>>, a |-> <<>>]
Null == [k |-> "null", s |-> <<>>, a |-> <<>>]
NaN == [k |-> "NaN", s |-> <<>>, a |-> <<>>]
Num(x) == [k |-> "number", s |-> x, a |-> <<>>]
Str(x) == [k |-> "string", s |-> x, a |-> <<>>]
Arr(xs) == [k |-> "array", s |-> <<>>, a |-> xs]

zero == <<"0">>

\* ToBoolean
Truthy(v) ==
  CASE v.k = "undefined" -> FALSE
    [] v.k = "null" -> FALSE
    [] v.k = "NaN" -> FALSE
    [] v.k = "number" -> v.s # zero
    [] v.k = "string" -> v.s # <<>>
    [] OTHER -> TRUE

\* a || b
Or(x, y) == IF Truthy(x) THEN x ELSE y

(***************************************************************************)
(* Decimal numerals.                                                       *)
(***************************************************************************)
RECURSIVE DigitPrefixLen(_)
DigitPrefixLen(s) ==
  IF s = <<>> \/ ~IsDigit(Head(s)) THEN 0 ELSE 1 + DigitPrefixLen(Tail(s))

RECURSIVE StripLeadingZeros(_)
StripLeadingZeros(s) ==
  IF Len(s) > 1 /\ Head(s) = "0" THEN StripLeadingZeros(Tail(s)) ELSE s

RECURSIVE StripTrailingZeros(_)
StripTrailingZeros(s) ==
  IF s # <<>> /\ s[Len(s)] = "0"
  THEN StripTrailingZeros(SubSeq(s, 1, Len(s) - 1)) ELSE s

\* the number with integer digits ip and fraction digits fp, as JavaScript
\* prints it
Canonical(ip, fp) ==
  LET i == StripLeadingZeros(IF ip = <<>> THEN zero ELSE ip)
      f == StripTrailingZeros(fp)
  IN  IF f = <<>> THEN i ELSE i \o <<".">> \o f

\* the longest prefix of s that is a decimal literal (digits, an optional
\* point, digits; at least one digit), as <<integer digits, fraction digits,
\* length>>; length 0 when there is none
DecimalPrefix(s) ==
  LET n == DigitPrefixLen(s)
      rest == SubSeq(s, n + 1, Len(s))
      m == IF rest # <<>> /\ Head(rest) = "." THEN DigitPrefixLen(Tail(rest)) ELSE 0
      hasPoint == rest # <<>> /\ Head(rest) = "."
  IN  IF n = 0 /\ m = 0 THEN <<(<<>>), (<<>>), 0>>
      ELSE <<SubSeq(s, 1, n),
             IF hasPoint THEN SubSeq(rest, 2, m + 1) ELSE <<>>,
             IF hasPoint THEN n + 1 + m ELSE n>>

\* parseFloat(s), on unsigned decimal text
parseFloat(s) ==
  LET d == DecimalPrefix(trimStart(s))
  IN  IF d[3] = 0 THEN NaN ELSE Num(Canonical(d[1], d[2]))

\* Number(s) of a string: the whole trimmed string must be a numeral
StringToNumber(s) ==
  LET t == trim(s)
      d == DecimalPrefix(t)
  IN  IF t = <<>> THEN Num(zero)
      ELSE IF d[3] = Len(t) THEN Num(Canonical(d[1], d[2])) ELSE NaN

\* Number(v)
Number(v) ==
  CASE v.k = "undefined" -> NaN
    [] v.k = "null" -> Num(zero)
    [] v.k = "NaN" -> NaN
    [] v.k = "number" -> v
    [] v.k = "string" -> StringToNumber(v.s)
    [] OTHER -> NaN

(***************************************************************************)
(* Place objects and JSON documents.  An item of a JSON array is an object *)
(* with the fields below (a field the object lacks reads undefined) or,    *)
(* with obj = FALSE, a primitive number.  A document is its top-level      *)
(* entries in the order of Object.keys.                                    *)
(***************************************************************************)
Place(name, type, lat, lng, tags) ==
  [obj |-> TRUE, name |-> name, type |-> type, lat |-> lat, lng |-> lng,
   latitude |-> Undef, longitude |-> Undef, tags |-> tags]

Prim == [Place(Undef, Undef, Undef, Undef, Undef) EXCEPT !.obj = FALSE]

NotArray == [kind |-> "other", items |-> <<>>]
Absent == [kind |-> "undefined", items |-> <<>>]
ArrayOf(items) == [kind |-> "array", items |-> items]

\* data[k]
Get(data, k) ==
  IF \E i \in DOMAIN data : data[i].key = k
  THEN data[CHOOSE i \in DOMAIN data : data[i].key = k].val
  ELSE Absent

\* Array.isArray
IsArray(v) == v.kind = "array"

RECURSIVE Concat(_)
Concat(ss) == IF ss = <<>> THEN <<>> ELSE Head(ss) \o Concat(Tail(ss))

(***************************************************************************)
(* loadPlaces: the normalizer.                                             *)
(***************************************************************************)
LegacyKeys == <<s_brunchs, s_pizzerias, s_restaurants, s_places>>

\* a replace that strips nothing
StripFinalS_Kept(k) == k

\* k.replace(/s$/, '')
StripFinalS(k) ==
  IF k # <<>> /\ k[Len(k)] = "s" THEN SubSeq(k, 1, Len(k) - 1) ELSE k

AssignType_OwnType(it, type) == [it EXCEPT !.obj = TRUE]

\* Object.assign({}, it, { type: it.type || type })
AssignType(it, type) == [it EXCEPT !.obj = TRUE, !.type = Or(it.type, type)]

\* data[k].forEach(it => places.push(Object.assign(...)))
PushAll(items, type) ==
  IF items = <<>> THEN <<>>
  ELSE [i \in 1..Len(items) |-> AssignType(items[i], type)]

\* the type the legacy loop gives the items of key k
LegacyType(k) == IF k = s_places THEN Null ELSE Str(StripFinalS(k))

\* the forEach over the legacy keys
FoldLegacy(data) ==
  Concat([j \in DOMAIN LegacyKeys |->
            IF IsArray(Get(data, LegacyKeys[j]))
            THEN PushAll(Get(data, LegacyKeys[j]).items, LegacyType(LegacyKeys[j]))
            ELSE <<>>])

\* Array.isArray(data[k]) && data[k].length && typeof data[k][0] === 'object'
ScanTakes(v) == IsArray(v) /\ v.items # <<>> /\ v.items[1].obj

\* the forEach over Object.keys(data)
ScanAll(data) ==
  IF data = <<>> THEN <<>>
  ELSE Concat([j \in DOMAIN data |->
                 IF ScanTakes(data[j].val)
                 THEN PushAll(data[j].val.items, Str(data[j].key))
                 ELSE <<>>])

\* a normalizer that sends the places array through the legacy loop too
Normalize_FoldsPlaces(data) ==
  IF FoldLegacy(data) # <<>> THEN FoldLegacy(data) ELSE ScanAll(data)

\* a normalizer that scans the top-level arrays whatever the legacy loop found
Normalize_AlwaysScans(data) ==
  IF IsArray(Get(data, s_places)) THEN Get(data, s_places).items
  ELSE FoldLegacy(data) \o ScanAll(data)

\* "Normalize into array places"
Normalize(data) ==
  IF IsArray(Get(data, s_places)) THEN Get(data, s_places).items
  ELSE IF FoldLegacy(data) # <<>> THEN FoldLegacy(data)
  ELSE ScanAll(data)

(***************************************************************************)
(* loadPlaces: the render loop.                                            *)
(***************************************************************************)
\* Number(p.lat || p.latitude), Number(p.lng || p.longitude)
LatOf(p) == Number(Or(p.lat, p.latitude))
LngOf(p) == Number(Or(p.lng, p.longitude))

\* not (!lat || !lng)
LoadPlacesRenders(p) == Truthy(LatOf(p)) /\ Truthy(LngOf(p))

\* the markers added to the layer group: the place and the coordinates
MarkerOf(p) == [place |-> p, lat |-> LatOf(p), lng |-> LngOf(p)]

LoadPlacesMarkers(places) ==
  LET kept == SelectSeq(places, LoadPlacesRenders)
  IN  IF kept = <<>> THEN <<>> ELSE [i \in 1..Len(kept) |-> MarkerOf(kept[i])]

\* the list container after the loop
ListOf(entries) ==
  IF entries = <<>> THEN [k |-> "Aucune adresse.", li |-> <<>>]
  ELSE [k |-> "ul", li |-> entries]

Impossible == [k |-> "Impossible de charger les adresses.", li |-> <<>>]
PageContent == [k |-> "page", li |-> <<>>]

(***************************************************************************)
(* initializeMap: parseCSV.                                                *)
(***************************************************************************)
s_lat == <<"l","a","t">>
s_lng == <<"l","n","g">>
s_tags == <<"t","a","g","s">>
s_type == <<"t","y","p","e">>
s_name == <<"n","a","m","e">>
s_latitude == <<"l","a","t","i","t","u","d","e">>
s_longitude == <<"l","o","n","g","i","t","u","d","e">>

\* the pieces of s between the separator positions seps, from position i on
RECURSIVE SplitFrom(_, _, _)
SplitFrom(s, seps, i) ==
  IF \A j \in seps : j < i THEN <<SubSeq(s, i, Len(s))>>
  ELSE LET j == CHOOSE x \in seps : x >= i /\ \A y \in seps : y >= i => x <= y
       IN  <<SubSeq(s, i, j - 1)>> \o SplitFrom(s, seps, j + 1)

\* s.split(','): every comma separates
SplitCommas(s) == SplitFrom(s, {i \in DOMAIN s : s[i] = ","}, 1)

\* csvText.split(/\r?\n/)
SplitLines(s) ==
  LET raw == SplitFrom(s, {i \in DOMAIN s : s[i] = "\n"}, 1)
  IN  [i \in DOMAIN raw |->
         IF i < Len(raw) /\ raw[i] # <<>> /\ raw[i][Len(raw[i])] = "\r"
         THEN SubSeq(raw[i], 1, Len(raw[i]) - 1)
         ELSE raw[i]]

QuotesAfter(s, i) == Cardinality({j \in DOMAIN s : j > i /\ s[j] = "\""})

SplitRow_EveryComma(s) == SplitCommas(s)

\* s.split(/,(?=(?:(?:[^"]*"){2})*[^"]*$)/): a comma separates when an even
\* number of double quotes follows it
SplitRow(s) ==
  SplitFrom(s, {i \in DOMAIN s : s[i] = "," /\ QuotesAfter(s, i) % 2 = 0}, 1)

\* s.replace(/""/g, '"')
RECURSIVE UndoubleQuotes(_)
UndoubleQuotes(s) ==
  IF Len(s) < 2 THEN s
  ELSE IF s[1] = "\"" /\ s[2] = "\""
       THEN <<"\"">> \o UndoubleQuotes(SubSeq(s, 3, Len(s)))
       ELSE <<s[1]>> \o UndoubleQuotes(Tail(s))

CellValue_KeepsQuotes(cell) == trim(cell)

\* the map over the cells of a row
CellValue(cell) ==
  LET val == trim(cell)
  IN  IF val # <<>> /\ val[1] = "\"" /\ val[Len(val)] = "\""
      THEN UndoubleQuotes(SubSeq(val, 2, Len(val) - 1))
      ELSE val

RowCells(line) ==
  LET cells == SplitRow(line)
  IN  [i \in DOMAIN cells |-> CellValue(cells[i])]

\* lines[0].split(',').map(h => h.trim().toLowerCase())
Headers(line) ==
  LET hs == SplitCommas(line)
  IN  [i \in DOMAIN hs |-> toLowerCase(trim(hs[i]))]

ReplaceFirstComma_None(s) == s

\* value.replace(',', '.'): the first comma
ReplaceFirstComma(s) ==
  IF \E i \in DOMAIN s : s[i] = ","
  THEN LET i == CHOOSE x \in DOMAIN s :
                  s[x] = "," /\ \A y \in DOMAIN s : s[y] = "," => x <= y
       IN  [s EXCEPT ![i] = "."]
  ELSE s

\* value.split(',').map(t => t.trim())
TagList(value) ==
  LET ts == SplitCommas(value)
  IN  [i \in DOMAIN ts |-> trim(ts[i])]

\* what the forEach over the headers stores under header, from the cell at
\* index (row[index] is undefined past the end of the row)
FieldValue(header, row, index) ==
  LET defined == index <= Len(row)
  IN  CASE header = s_lat \/ header = s_lng ->
             parseFloat(ReplaceFirstComma(row[index]))
        [] header = s_tags ->
             IF defined /\ row[index] # <<>> THEN Arr(TagList(row[index]))
             ELSE Arr(<<>>)
        [] header = s_type ->
             IF defined /\ row[index] # <<>>
             THEN Str(trim(toLowerCase(row[index])))
             ELSE Str(<<>>)
        [] OTHER -> IF defined THEN Str(row[index]) ELSE Undef

\* value.replace throws a TypeError when value is undefined
RowThrows(headers, row) ==
  \E i \in DOMAIN headers :
    (headers[i] = s_lat \/ headers[i] = s_lng) /\ i > Len(row)

\* place[f] after the forEach: the last header named f wins
FieldOf(f, headers, row) ==
  IF \E i \in DOMAIN headers : headers[i] = f
  THEN LET i == CHOOSE x \in DOMAIN headers :
                  headers[x] = f /\ \A y \in DOMAIN headers : headers[y] = f => y <= x
       IN  FieldValue(f, row, i)
  ELSE Undef

\* the place object built from a row
RowPlace(headers, row) ==
  [obj |-> TRUE,
   name |-> FieldOf(s_name, headers, row),
   type |-> FieldOf(s_type, headers, row),
   lat |-> FieldOf(s_lat, headers, row),
   lng |-> FieldOf(s_lng, headers, row),
   latitude |-> FieldOf(s_latitude, headers, row),
   longitude |-> FieldOf(s_longitude, headers, row),
   tags |-> FieldOf(s_tags, headers, row)]

RowKept_Always(place) == TRUE

\* if (place.lat && place.lng) places.push(place)
RowKept(place) == Truthy(place.lat) /\ Truthy(place.lng)

\* the loop over lines[1..]: blank lines are skipped
RECURSIVE ParseRows(_, _)
ParseRows(headers, lines) ==
  IF lines = <<>> THEN [threw |-> FALSE, places |-> <<>>]
  ELSE IF trim(Head(lines)) = <<>> THEN ParseRows(headers, Tail(lines))
  ELSE LET row == RowCells(Head(lines))
       IN  IF RowThrows(headers, row) THEN [threw |-> TRUE, places |-> <<>>]
           ELSE LET place == RowPlace(headers, row)
                    rest == ParseRows(headers, Tail(lines))
                IN  IF rest.threw THEN rest
                    ELSE [threw |-> FALSE,
                          places |-> (IF RowKept(place)
                                      THEN <<place>> ELSE <<>>) \o rest.places]

\* parseCSV(csvText): the places, or threw when a TypeError leaves it
parseCSV(csvText) ==
  LET lines == SplitLines(csvText)
  IN  ParseRows(Headers(lines[1]), Tail(lines))

(***************************************************************************)
(* State.                                                                  *)
(***************************************************************************)
VARIABLES
  \* loadPlaces: the page and the map
  hasContainer,     \* document.getElementById(cfg.listContainerId) is there
  clearBefore,      \* the clearBefore option the page passes
  loadsLeft,        \* calls of loadPlaces the page has still to make
  calls,            \* the calls of loadPlaces made, in order; a call's index
                    \* names its layerGroup
  mapLayers,        \* the layer groups attached to the map
  loadPlacesLayers, \* map._loadPlaces_layers
  container,        \* innerHTML of the list container
  fetches           \* fetch() calls made so far

lpVars ==
  <<hasContainer, clearBefore, loadsLeft, calls, mapLayers, loadPlacesLayers,
    container, fetches>>

VARIABLES
  \* initializeMap
  endsWithJson,     \* urlToFetch.endsWith('.json')
  dataFilter,       \* config.dataFilter: "none" when the page gives none
  dataPlaces,       \* the list fetchData read from the body
  initialControls,  \* checked and active of the controls as the page gives them
  allPlaces,        \* [defined, list]: allPlaces is undefined, or the list
  markers,          \* the markers of the cluster group
  listContainer,    \* innerHTML of the list container; "absent" when null
  typeCheckboxes,   \* #filters input[type="checkbox"]: value and checked
  tagButtons,       \* #filters button.tag-button: data-tag and active
  filteredPlaces,   \* the list applyFilters last computed
  displayed,        \* the list displayContent was last called with
  response,         \* how the fetch of fetchData ended
  uncaught          \* the last event handler ended with an exception

imVars ==
  <<endsWithJson, dataFilter, dataPlaces, initialControls, allPlaces, markers,
    listContainer,
    typeCheckboxes, tagButtons, filteredPlaces, displayed, response, uncaught>>

VARIABLES
  \* setupMapFilters: the controls of the page
  filterInputs,     \* the checkboxes by id: "absent", "checked", "unchecked"
  filterButtons     \* the tag buttons by id: "absent", "active", "inactive"

smfVars == <<filterInputs, filterButtons>>

VARIABLES
  \* parseCSV on its own
  csvInput,         \* the header cells and the rows of cells of the text
  csvOutput         \* what parseCSV gave for that text

csvVars == <<csvInput, csvOutput>>

VARIABLE page       \* the script the page runs

vars == <<page, lpVars, imVars, smfVars, csvVars>>

Range(f) == {f[i] : i \in DOMAIN f}

(***************************************************************************)
(* loadPlaces(map, options).                                               *)
(***************************************************************************)
LoadPlacesBegin_NoFetch(data, blob, clear) ==
  LET layerGroup == Len(calls) + 1
  IN  /\ calls' = Append(calls,
                   [blob |-> blob, data |-> data, clearBefore |-> clear,
                    st |-> "pending", err |-> "", places |-> <<>>,
                    group |-> <<>>])
      /\ mapLayers' =
           (IF clear THEN mapLayers \ Range(loadPlacesLayers)
                           ELSE mapLayers) \cup {layerGroup}
      /\ loadPlacesLayers' =
           Append(IF clear THEN <<>> ELSE loadPlacesLayers, layerGroup)
      /\ fetches' = fetches

LoadPlacesBegin_KeepsLayers(data, blob, clear) ==
  LET layerGroup == Len(calls) + 1
  IN  /\ calls' = Append(calls,
                   [blob |-> blob, data |-> data, clearBefore |-> clear,
                    st |-> "pending", err |-> "", places |-> <<>>,
                    group |-> <<>>])
      /\ mapLayers' = mapLayers \cup {layerGroup}
      /\ loadPlacesLayers' =
           Append(IF clear THEN <<>> ELSE loadPlacesLayers, layerGroup)
      /\ fetches' = fetches + 1

\* up to the first await: the layer bookkeeping and the fetch
LoadPlacesBegin(data, blob, clear) ==
  LET layerGroup == Len(calls) + 1
  IN  /\ calls' = Append(calls,
                   [blob |-> blob, data |-> data, clearBefore |-> clear,
                    st |-> "pending", err |-> "", places |-> <<>>,
                    group |-> <<>>])
      /\ mapLayers' =
           (IF clear THEN mapLayers \ Range(loadPlacesLayers)
                           ELSE mapLayers) \cup {layerGroup}
      /\ loadPlacesLayers' =
           Append(IF clear THEN <<>> ELSE loadPlacesLayers, layerGroup)
      /\ fetches' = fetches + 1

\* the catch block: the static message, and the error thrown again
LoadPlacesCatch(c, err) ==
  /\ calls' = [calls EXCEPT ![c].st = "rejected", ![c].err = err]
  /\ container' = IF hasContainer THEN Impossible ELSE container

\* the try block after res.json() gave data: normalize, render, return
LoadPlacesReturn(c, data) ==
  LET places == Normalize(data)
      group == LoadPlacesMarkers(places)
  IN  /\ calls' = [calls EXCEPT ![c].st = "fulfilled", ![c].data = data,
                                ![c].places = places, ![c].group = group]
      /\ container' =
           IF hasContainer
           THEN ListOf(SelectSeq(places, LoadPlacesRenders))
           ELSE container

Pending(c) == c \in DOMAIN calls /\ calls[c].st = "pending"

\* the page calls loadPlaces(map, {jsonPath, clearBefore})
LoadPlacesCall ==
  /\ page = "loadPlaces"
  /\ loadsLeft > 0
  /\ \E clear \in BOOLEAN :
       /\ clearBefore' = clear
       /\ LoadPlacesBegin(<<>>, FALSE, clear)
  /\ loadsLeft' = loadsLeft - 1
  /\ UNCHANGED <<page, hasContainer, container, imVars, smfVars, csvVars>>

\* fetch() rejects: a network error
FetchRejects ==
  \E c \in DOMAIN calls :
    /\ Pending(c) /\ ~calls[c].blob
    /\ LoadPlacesCatch(c, "network")
    /\ UNCHANGED <<page, hasContainer, clearBefore, loadsLeft, mapLayers,
                 loadPlacesLayers, fetches, imVars, smfVars, csvVars>>

\* !res.ok
HttpNotOk ==
  \E c \in DOMAIN calls :
    /\ Pending(c) /\ ~calls[c].blob
    /\ LoadPlacesCatch(c, "HTTP")
    /\ UNCHANGED <<page, hasContainer, clearBefore, loadsLeft, mapLayers,
                 loadPlacesLayers, fetches, imVars, smfVars, csvVars>>

\* res.json() rejects: the body is not JSON
JsonRejects ==
  \E c \in DOMAIN calls :
    /\ Pending(c) /\ ~calls[c].blob
    /\ LoadPlacesCatch(c, "SyntaxError")
    /\ UNCHANGED <<page, hasContainer, clearBefore, loadsLeft, mapLayers,
                 loadPlacesLayers, fetches, imVars, smfVars, csvVars>>

(***************************************************************************)
(* The JSON documents of the model.                                        *)
(***************************************************************************)
n4858 == <<"4","8",".","5","8">>
n775 == <<"7",".","7","5">>
s_a == <<"a">>

\* the sequences of at most n elements of file f, in the order of f
Pick(f, S) ==
  [k \in 1..Cardinality(S) |->
     f[CHOOSE i \in S : Cardinality({j \in S : j < i}) = k - 1]]

SubLists(f, n) ==
  {Pick(f, S) : S \in {T \in SUBSET DOMAIN f : Cardinality(T) <= n}}

\* items that differ in their own type: none, an empty one, one of its own
TypedItems ==
  <<Place(Str(s_a), Undef, Num(n4858), Num(n775), Undef),
    Place(Str(s_a), Str(<<>>), Num(n4858), Num(n775), Undef),
    Place(Str(s_a), Str(s_ville), Num(n4858), Num(n775), Undef)>>

Keys == {s_places, s_brunchs, s_pizzerias, s_restaurants, s_cafes}

SeqsOfLen(S, n) == [1..n -> S]

\* the values a top-level key may hold, with at most n items
ValuesUpTo(n) ==
  {NotArray}
  \cup (IF n >= 1 THEN {ArrayOf(<<Prim>>)} ELSE {})
  \cup {ArrayOf(items) : items \in SubLists(TypedItems, n)}

s_abc == <<"a","b","c">>

\* items that differ in their coordinates: numbers, zero, a missing field,
\* text that is no number, a number written as text, and the latitude /
\* longitude spelling
CoordItems ==
  {[Place(Str(s_a), Str(s_restaurant), lat, lng, Undef)
      EXCEPT !.latitude = alt, !.longitude = alt] :
     lat \in {Num(n4858), Num(zero), Undef, Str(s_abc), Str(n4858)},
     lng \in {Num(n775), Undef},
     alt \in {Undef, Num(n4858)}}

RECURSIVE TotalItems(_)
TotalItems(vs) ==
  IF vs = <<>> THEN 0 ELSE Len(Head(vs).items) + TotalItems(Tail(vs))

\* sequences of at most MaxKeys distinct keys
KeySeqs ==
  {ks \in UNION {SeqsOfLen(Keys, n) : n \in 0..MaxKeys} :
     \A i, j \in DOMAIN ks : i # j => ks[i] # ks[j]}

DocOf(ks, vs) ==
  IF ks = <<>> THEN <<>>
  ELSE [i \in DOMAIN ks |-> [key |-> ks[i], val |-> vs[i]]]

\* the lists of at most MaxItems items that differ in their coordinates
CoordLists == UNION {SeqsOfLen(CoordItems, n) : n \in 0..MaxItems}

\* the page makes one call of loadPlaces and has made it
SingleCall == page = "loadPlaces" /\ Len(calls) = 1 /\ loadsLeft = 0

\* the data file of a page that makes several calls
ReloadFile ==
  <<[key |-> s_places,
     val |-> ArrayOf(<<Place(Str(s_a), Str(s_restaurant), Num(n4858), Num(n775),
                             Undef)>>)]>>

\* the response is OK and its body is a JSON document: one of at most
\* MaxKeys keys and MaxItems items, or { "places": [...] } with items that
\* differ in their coordinates, for a page that makes one call, and the
\* data file of the page for one that makes several; a blob URL gives back
\* the blob
LoadPlacesResolves ==
  \E c \in DOMAIN calls :
    /\ Pending(c)
    /\ \/ /\ calls[c].blob
          /\ LoadPlacesReturn(c, calls[c].data)
       \/ /\ ~calls[c].blob /\ page = "loadPlaces" /\ ~SingleCall
          /\ LoadPlacesReturn(c, ReloadFile)
       \/ /\ ~calls[c].blob /\ SingleCall
          /\ \E ks \in KeySeqs :
               \E vs \in SeqsOfLen(ValuesUpTo(MaxItems), Len(ks)) :
                 /\ TotalItems(vs) <= MaxItems
                 /\ LoadPlacesReturn(c, DocOf(ks, vs))
       \/ /\ ~calls[c].blob /\ SingleCall
          /\ \E items \in CoordLists :
               LoadPlacesReturn(c, <<[key |-> s_places, val |-> ArrayOf(items)]>>)
    /\ UNCHANGED <<page, hasContainer, clearBefore, loadsLeft, mapLayers,
                 loadPlacesLayers, fetches, imVars, smfVars, csvVars>>

(***************************************************************************)
(* initializeMap.                                                          *)
(***************************************************************************)
NoContainer == [k |-> "absent", li |-> <<>>]
AucunePourFiltres ==
  [k |-> "Aucune adresse à afficher pour les filtres actuels.", li |-> <<>>]

\* isNaN(v), as Leaflet's LatLng applies it to a coordinate
IsNaN(v) == Number(v).k = "NaN"

\* place.lat && place.lng
DisplayGuard(place) == Truthy(place.lat) /\ Truthy(place.lng)

\* L.marker([place.lat, place.lng]) is given a coordinate that is no number.
\* Leaflet is not part of the repository: with strict it throws "Invalid
\* LatLng object", without it the marker is made with the value as it is.
BadLatLng(place) == DisplayGuard(place) /\ (IsNaN(place.lat) \/ IsNaN(place.lng))

\* the places the forEach of displayContent gets through
Displayed(places, strict) ==
  IF strict /\ \E i \in DOMAIN places : BadLatLng(places[i])
  THEN SubSeq(places, 1,
              (CHOOSE i \in DOMAIN places :
                 BadLatLng(places[i]) /\ \A j \in 1..(i - 1) : ~BadLatLng(places[j])) - 1)
  ELSE places

DisplayThrows(places, strict) ==
  strict /\ \E i \in DOMAIN places : BadLatLng(places[i])

RawMarker(place) == [place |-> place, lat |-> place.lat, lng |-> place.lng]

\* displayContent(places): the markers, the list and whether it threw
displayContent(places, strict) ==
  LET shown == SelectSeq(Displayed(places, strict), DisplayGuard)
      threw == DisplayThrows(places, strict)
  IN  [markers |-> IF shown = <<>> THEN <<>>
                   ELSE [i \in DOMAIN shown |-> RawMarker(shown[i])],
       list |-> IF listContainer = NoContainer THEN NoContainer
                ELSE IF threw THEN [k |-> "ul", li |-> shown]
                ELSE IF shown = <<>> THEN AucunePourFiltres
                ELSE [k |-> "ul", li |-> shown],
       threw |-> threw]

NoPizzeria(place) == place.type # Str(s_pizzeria)

ApplyDataFilter_None(places) == places

\* config.dataFilter(dataPlaces)
ApplyDataFilter(places) ==
  IF dataFilter = "none" THEN places ELSE SelectSeq(places, NoPizzeria)

\* the catch block of fetchData
FetchDataCatch ==
  listContainer' = IF listContainer = NoContainer THEN NoContainer ELSE Impossible

\* fetch() rejects
FetchDataRejects ==
  /\ page = "initializeMap" /\ response = "pending"
  /\ response' = "network error"
  /\ FetchDataCatch
  /\ UNCHANGED <<page, lpVars, smfVars, csvVars, endsWithJson, dataFilter, initialControls, dataPlaces,
                 allPlaces, markers, typeCheckboxes, tagButtons, filteredPlaces,
                 displayed, uncaught>>

\* after dataPlaces is set: the dataFilter, the assignment, displayContent
FetchDataDisplay(places) ==
  \E strict \in BOOLEAN :
    LET shown == displayContent(ApplyDataFilter(places), strict)
    IN  /\ dataPlaces' = places
        /\ allPlaces' = [defined |-> TRUE, list |-> ApplyDataFilter(places)]
        /\ displayed' = ApplyDataFilter(places)
        /\ markers' = shown.markers
        /\ IF shown.threw THEN FetchDataCatch ELSE listContainer' = shown.list

\* data.places is undefined: config.dataFilter(undefined) throws, and without
\* a dataFilter allPlaces becomes undefined and displayContent throws after
\* it emptied the markers and the list
FetchDataNoPlaces ==
  /\ IF dataFilter = "none"
     THEN /\ allPlaces' = [defined |-> FALSE, list |-> <<>>]
          /\ markers' = <<>>
     ELSE UNCHANGED <<allPlaces, markers>>
  /\ UNCHANGED <<displayed, dataPlaces>>
  /\ FetchDataCatch

\* the lists of places a JSON data file holds
s_Veg == <<"V","e","g">>
s_veg == <<"v","e","g">>
s_baby == <<"b","a","b","y">>
s_Restaurant == <<"R","e","s","t","a","u","r","a","n","t">>

\* the places of a JSON data file, and the files that hold at most MaxItems
\* of them
MapItems ==
  <<Place(Str(s_a), Str(s_pizzeria), Str(s_abc), Num(n775), Arr(<<s_baby>>)),
   Place(Str(s_a), Str(s_restaurant), Num(n4858), Num(n775), Arr(<<s_veg>>)),
   Place(Str(s_a), Str(s_pizzeria), Num(n4858), Num(n775), Arr(<<s_Veg, s_baby>>)),
   Place(Str(s_a), Str(s_Restaurant), Num(n4858), Num(n775), Undef),
   Place(Str(s_a), Str(s_restaurant), Undef, Num(n775), Arr(<<s_veg, s_baby>>)),
   Place(Str(s_a), Str(s_restaurant), Num(zero), Num(n775), Arr(<<>>))>>

MapLists == SubLists(MapItems, MaxItems)

\* the fetch resolved and urlToFetch ends with .json; the body is no JSON,
\* or JSON without a places array, or { "places": [...] }; response.ok is
\* not read
FetchDataJson ==
  /\ page = "initializeMap" /\ response = "pending" /\ endsWithJson
  /\ \E ok \in BOOLEAN :
       /\ response' = IF ok THEN "ok" ELSE "not ok"
       /\ \/ FetchDataCatch /\ UNCHANGED <<dataPlaces, allPlaces, markers, displayed>>
          \/ FetchDataNoPlaces
          \/ ok /\ \E list \in MapLists : FetchDataDisplay(list)
  /\ UNCHANGED <<page, lpVars, smfVars, csvVars, endsWithJson, dataFilter, initialControls, typeCheckboxes,
                 tagButtons, filteredPlaces, uncaught>>

\* the CSV texts of the model: the header row and at most MaxItems of the
\* rows
Q == "\""
CsvHeader == <<"n","a","m","e",",","T","y","p","e",",","l","a","t",",","l","n","g",",","t","a","g","s">>
CsvRows ==
  <<<<"a",",","R","e","s","t","a","u","r","a","n","t",",","4","8",".","5","8",",","7",".","7","5",",","v","e","g">>,
   <<Q,"a",","," ","b",Q,",","p","i","z","z","e","r","i","a",",",Q,"4","8",",","5","8",Q,",","7",".","7","5",",",Q,"V","e","g",",","b","a","b","y",Q>>,
   <<"a",",","r","e","s","t","a","u","r","a","n","t",",",",","7",".","7","5",",">>,
   <<"a",",","p","i","z","z","e","r","i","a",",","a","b","c",",","7",".","7","5",",","b","a","b","y">>,
   <<"a",",","r","e","s","t","a","u","r","a","n","t">>>>

RECURSIVE JoinLines(_)
JoinLines(ls) ==
  IF ls = <<>> THEN <<>> ELSE <<"\n">> \o Head(ls) \o JoinLines(Tail(ls))

CsvTexts == {CsvHeader \o JoinLines(rows) : rows \in SubLists(CsvRows, MaxItems)}

\* the body of an error response
NotFoundText == <<"N","o","t"," ","F","o","u","n","d">>

\* the fetch resolved and urlToFetch does not end with .json: the body is
\* read as text and parsed as CSV; response.ok is not read
FetchDataCsv ==
  /\ page = "initializeMap" /\ response = "pending" /\ ~endsWithJson
  /\ \E ok \in BOOLEAN :
       /\ response' = IF ok THEN "ok" ELSE "not ok"
       /\ \E text \in IF ok THEN CsvTexts ELSE {NotFoundText} :
            LET parsed == parseCSV(text)
            IN  IF parsed.threw
                THEN FetchDataCatch /\ UNCHANGED <<dataPlaces, allPlaces, markers, displayed>>
                ELSE FetchDataDisplay(parsed.places)
  /\ UNCHANGED <<page, lpVars, smfVars, csvVars, endsWithJson, dataFilter, initialControls, typeCheckboxes,
                 tagButtons, filteredPlaces, uncaught>>

\* setupFilters ran: fetchData() settled
Wired == page = "initializeMap" /\ response # "pending"

\* selectedTypes.includes(place.type)
TypeMatch(place, boxes) ==
  \E i \in DOMAIN boxes :
    boxes[i].checked /\ place.type = Str(boxes[i].value)

\* (place.tags || []).map(t => String(t).toLowerCase())
PlaceTags(place) ==
  IF Truthy(place.tags)
  THEN {toLowerCase(place.tags.a[i]) : i \in DOMAIN place.tags.a}
  ELSE {}

TagMatch_CaseSensitive(place, buttons) ==
  \A j \in DOMAIN buttons :
    buttons[j].active =>
      Truthy(place.tags)
        /\ \E i \in DOMAIN place.tags.a :
             place.tags.a[i] = toLowerCase(buttons[j].tag)

\* activeTags.every(tag => placeTags.includes(tag.toLowerCase()))
TagMatch(place, buttons) ==
  \A j \in DOMAIN buttons :
    buttons[j].active => toLowerCase(buttons[j].tag) \in PlaceTags(place)

FilterPlaces_FromSecond(places, boxes, buttons) ==
  LET Keep(place) == TypeMatch(place, boxes) /\ TagMatch(place, buttons)
  IN  IF places = <<>> THEN <<>> ELSE SelectSeq(Tail(places), Keep)

\* allPlaces.filter(place => typeMatch && tagMatch)
FilterPlaces(places, boxes, buttons) ==
  LET Keep(place) == TypeMatch(place, boxes) /\ TagMatch(place, buttons)
  IN  SelectSeq(places, Keep)

\* applyFilters(), with the controls as the event left them
applyFilters(boxes, buttons) ==
  IF ~allPlaces.defined
  THEN /\ uncaught' = TRUE
       /\ UNCHANGED <<markers, listContainer, filteredPlaces, displayed>>
  ELSE \E strict \in BOOLEAN :
         LET filtered == FilterPlaces(allPlaces.list, boxes, buttons)
             shown == displayContent(filtered, strict)
         IN  /\ filteredPlaces' = filtered
             /\ displayed' = filtered
             /\ markers' = shown.markers
             /\ listContainer' = shown.list
             /\ uncaught' = shown.threw

CheckboxChange_NarrowsList ==
  /\ Wired
  /\ \E i \in DOMAIN typeCheckboxes :
       /\ typeCheckboxes' =
            [typeCheckboxes EXCEPT ![i].checked = ~typeCheckboxes[i].checked]
       /\ applyFilters(typeCheckboxes', tagButtons)
  /\ allPlaces' = [allPlaces EXCEPT !.list = filteredPlaces']
  /\ UNCHANGED <<page, lpVars, smfVars, csvVars, endsWithJson, dataFilter, initialControls, dataPlaces, tagButtons,
                 response>>

\* a change event on a type checkbox
CheckboxChange ==
  /\ Wired
  /\ \E i \in DOMAIN typeCheckboxes :
       /\ typeCheckboxes' =
            [typeCheckboxes EXCEPT ![i].checked = ~typeCheckboxes[i].checked]
       /\ applyFilters(typeCheckboxes', tagButtons)
  /\ UNCHANGED <<page, lpVars, smfVars, csvVars, endsWithJson, dataFilter, initialControls, dataPlaces, allPlaces, tagButtons,
                 response>>

\* a click on a tag button
TagButtonClick ==
  /\ Wired
  /\ \E j \in DOMAIN tagButtons :
       /\ tagButtons' = [tagButtons EXCEPT ![j].active = ~tagButtons[j].active]
       /\ applyFilters(typeCheckboxes, tagButtons')
  /\ UNCHANGED <<page, lpVars, smfVars, csvVars, endsWithJson, dataFilter, initialControls, dataPlaces, allPlaces,
                 typeCheckboxes, response>>

(***************************************************************************)
(* setupMapFilters(map, initialLoadOptions).                               *)
(***************************************************************************)
FilterIds ==
  {"filter-pizzerias", "filter-restaurants", "filter-restos",
   "filter-fast-food", "filter-cafes"}
TagButtonIds == {"filter-vg", "filter-baby", "filter-brunch"}

s_fast_food == <<"f","a","s","t","-","f","o","o","d">>
s_cafe_literal == <<"c","a","f","Ã","©">>
s_vg == <<"v","g">>
s_hash_vg == <<"#","v","g">>
s_babyfriendly == <<"b","a","b","y","f","r","i","e","n","d","l","y">>
s_hash_babyfriendly == <<"#">> \o s_babyfriendly

\* document.getElementById(id)?.checked ?? default
CheckedOr(inputs, id, default) ==
  IF inputs[id] = "absent" THEN default ELSE inputs[id] = "checked"

\* document.getElementById(id)?.classList.contains('active')
HasActive(buttons, id) == buttons[id] = "active"

\* the tags of p as applyFilters reads them: an array is lowercased, any
\* other truthy value is lowercased, split at , # ; and trimmed
TagsOf(p) ==
  IF ~Truthy(p.tags) THEN {}
  ELSE IF p.tags.k = "array"
  THEN {toLowerCase(p.tags.a[i]) : i \in DOMAIN p.tags.a}
  ELSE LET low == toLowerCase(p.tags.s)
           parts == SplitFrom(low, {i \in DOMAIN low : low[i] \in {",", "#", ";"}}, 1)
       IN  {trim(parts[i]) : i \in DOMAIN parts}

\* the callback of allPlaces.filter
FilterKeeps(p, inputs, buttons) ==
  LET t == toLowerCase(Or(p.type, Str(<<>>)).s)
      showPz == CheckedOr(inputs, "filter-pizzerias", TRUE)
      showRest == CheckedOr(inputs, "filter-restaurants",
                            CheckedOr(inputs, "filter-restos", TRUE))
      showFf == CheckedOr(inputs, "filter-fast-food", TRUE)
      showCafe == CheckedOr(inputs, "filter-cafes", TRUE)
      tags == TagsOf(p)
  IN  /\ ~(t = s_pizzeria /\ ~showPz)
      /\ ~(t = s_restaurant /\ ~showRest)
      /\ ~(t = s_fast_food /\ ~showFf)
      /\ ~(t = s_cafe_literal /\ ~showCafe)
      /\ ~(HasActive(buttons, "filter-brunch") /\ s_brunch \notin tags)
      /\ ~(HasActive(buttons, "filter-vg") /\ s_vg \notin tags /\ s_hash_vg \notin tags)
      /\ ~(HasActive(buttons, "filter-baby") /\ s_babyfriendly \notin tags
             /\ s_baby \notin tags /\ s_hash_babyfriendly \notin tags)

\* allPlaces.filter(p => ...)
Filtered(places, inputs, buttons) ==
  LET Keep(p) == FilterKeeps(p, inputs, buttons)
  IN  SelectSeq(places, Keep)

\* JSON.stringify then res.json(): NaN comes back as null, an undefined
\* field is left out
JsonValue(v) == IF v.k = "NaN" THEN Null ELSE v
JsonPlace(p) ==
  [f \in DOMAIN p |-> IF f = "obj" THEN p[f] ELSE JsonValue(p[f])]

\* new Blob([JSON.stringify({ places: filteredPlaces })])
BlobOf(places) ==
  <<[key |-> s_places,
     val |-> ArrayOf(IF places = <<>> THEN <<>>
                     ELSE [i \in DOMAIN places |-> JsonPlace(places[i])])]>>

\* setupMapFilters is called: the initial loadPlaces(map, initialLoadOptions)
SetupMapFilters ==
  /\ page = "setupMapFilters"
  /\ calls = <<>>
  /\ LoadPlacesBegin(<<>>, FALSE, clearBefore)
  /\ UNCHANGED <<page, hasContainer, clearBefore, loadsLeft, container, imVars, smfVars, csvVars>>

\* the lists of places of the data file of a page with filters
s_Pizzeria == <<"P","i","z","z","e","r","i","a">>
s_cafe == <<"c","a","f","é">>
s_tags_text == <<"B","a","b","y",";"," ","#","v","g">>
s_VG == <<"V","G">>

\* the data file of a page with filters, and the files that hold at most
\* MaxItems of its places, in its order
FilterFile ==
  <<Place(Str(s_a), Str(s_Pizzeria), Num(n4858), Num(n775), Arr(<<s_VG>>)),
    Place(Str(s_a), Str(s_restaurant), Num(n4858), Num(n775), Str(s_tags_text)),
    Place(Str(s_a), Str(s_cafe), Num(n4858), Num(n775), Undef),
    Place(Str(s_a), Str(s_restaurant), Undef, Num(n775), Arr(<<s_baby>>)),
    Place(Str(s_a), Undef, Str(s_abc), Num(n775), Arr(<<s_brunch>>))>>

FilterLists == SubLists(FilterFile, MaxItems)

\* the initial loadPlaces resolves, and the then callback keeps its places
\* and wires the controls
SetupMapFiltersLoaded ==
  /\ page = "setupMapFilters"
  /\ Pending(1) /\ ~calls[1].blob
  /\ \E items \in FilterLists :
       LET data == <<[key |-> s_places, val |-> ArrayOf(items)]>>
       IN  /\ LoadPlacesReturn(1, data)
           /\ allPlaces' = [defined |-> TRUE, list |-> Normalize(data)]
  /\ UNCHANGED <<page, hasContainer, clearBefore, loadsLeft, mapLayers,
                 loadPlacesLayers, fetches, endsWithJson, dataFilter, initialControls, dataPlaces, markers,
                 listContainer, typeCheckboxes, tagButtons, filteredPlaces,
                 displayed, response, uncaught, smfVars, csvVars>>

\* the then callback ran
FiltersWired ==
  page = "setupMapFilters" /\ calls # <<>> /\ calls[1].st = "fulfilled"

\* applyFilters(), with the controls as the event left them: the filter,
\* then doFilteredLoad up to the first await of its loadPlaces
FilteredLoad(inputs, buttons) ==
  LET filtered == Filtered(allPlaces.list, inputs, buttons)
  IN  /\ filteredPlaces' = filtered
      /\ LoadPlacesBegin(BlobOf(filtered), TRUE, TRUE)
      /\ loadsLeft' = loadsLeft - 1

\* a change event on one of the filter checkboxes
FilterInputChange ==
  /\ FiltersWired /\ loadsLeft > 0
  /\ \E id \in FilterIds :
       /\ filterInputs[id] # "absent"
       /\ filterInputs' =
            [filterInputs EXCEPT
               ![id] = IF @ = "checked" THEN "unchecked" ELSE "checked"]
       /\ FilteredLoad(filterInputs', filterButtons)
  /\ UNCHANGED <<page, hasContainer, clearBefore, container, endsWithJson,
                 dataFilter, initialControls, dataPlaces, allPlaces, markers, listContainer, typeCheckboxes,
                 tagButtons, displayed, response, uncaught, filterButtons, csvVars>>

\* a click on one of the tag buttons
FilterButtonClick ==
  /\ FiltersWired /\ loadsLeft > 0
  /\ \E id \in TagButtonIds :
       /\ filterButtons[id] # "absent"
       /\ filterButtons' =
            [filterButtons EXCEPT
               ![id] = IF @ = "active" THEN "inactive" ELSE "active"]
       /\ FilteredLoad(filterInputs, filterButtons')
  /\ UNCHANGED <<page, hasContainer, clearBefore, container, endsWithJson,
                 dataFilter, initialControls, dataPlaces, allPlaces, markers, listContainer, typeCheckboxes,
                 tagButtons, displayed, response, uncaught, filterInputs, csvVars>>

(***************************************************************************)
(* parseCSV on texts built from cells.                                     *)
(***************************************************************************)
\* a cell as the file writes it, and the value the file means by it
NameCells ==
  {[text |-> <<"a">>, value |-> Str(<<"a">>)],
   [text |-> <<Q,"a",","," ","b",Q>>, value |-> Str(<<"a",","," ","b">>)],
   [text |-> <<Q,"a"," ",Q,Q,"b",Q,Q,",","c",Q>>,
    value |-> Str(<<"a"," ",Q,"b",Q,",","c">>)]}

TypeCells ==
  {[text |-> <<" ">> \o s_Restaurant, value |-> Str(s_restaurant)]}

LatCells ==
  {[text |-> n4858, value |-> Num(n4858)],
   [text |-> <<Q,"4","8",",","5","8",Q>>, value |-> Num(n4858)],
   [text |-> <<"4","8",",","5","8">>, value |-> Num(n4858)]}

LngCells == {[text |-> n775, value |-> Num(n775)]}

TagCells ==
  {[text |-> s_veg, value |-> Arr(<<s_veg>>)],
   [text |-> <<Q>> \o s_veg \o <<","," ">> \o s_baby \o <<Q>>,
    value |-> Arr(<<s_veg, s_baby>>)]}

CellsOf(header) ==
  CASE header = s_name -> NameCells
    [] header = s_type -> TypeCells
    [] header = s_lat -> LatCells
    [] header = s_lng -> LngCells
    [] header = s_tags -> TagCells

\* the header rows of the model: with and without a type column
CsvHeaders ==
  {<<s_name, s_type, s_lat, s_lng, s_tags>>, <<s_name, s_lat, s_lng, s_tags>>}

CsvRowsFor(header) ==
  {row \in SeqsOfLen(NameCells \cup TypeCells \cup LatCells \cup LngCells \cup TagCells,
                     Len(header)) :
     \A i \in DOMAIN header : row[i] \in CellsOf(header[i])}

RECURSIVE SetToSeq(_)
SetToSeq(S) ==
  IF S = {} THEN <<>>
  ELSE LET x == CHOOSE y \in S : TRUE IN <<x>> \o SetToSeq(S \ {x})

Quoted(s) == <<Q>> \o s \o <<Q>>

\* name,type,lat,lng,tags
\* "A","restaurant","48.58","7.75","veg,baby"
QuotedRowInput ==
  [header |-> <<s_name, s_type, s_lat, s_lng, s_tags>>,
   rows |-> <<
     <<[text |-> Quoted(<<"A">>), value |-> Str(<<"A">>)],
       [text |-> Quoted(s_restaurant), value |-> Str(s_restaurant)],
       [text |-> Quoted(n4858), value |-> Num(n4858)],
       [text |-> Quoted(n775), value |-> Num(n775)],
       [text |-> Quoted(s_veg \o <<",">> \o s_baby),
        value |-> Arr(<<s_veg, s_baby>>)]>> >>]

\* a,Restaurant,48.58,7.75,veg
PlainRow ==
  <<[text |-> <<"a">>, value |-> Str(<<"a">>)],
    [text |-> s_Restaurant, value |-> Str(s_restaurant)],
    [text |-> n4858, value |-> Num(n4858)],
    [text |-> n775, value |-> Num(n775)],
    [text |-> s_veg, value |-> Arr(<<s_veg>>)]>>

\* under name,type,lat,lng,tags, that row and a row that ends after one to
\* four of its cells, in either order
ShortRowInputs ==
  UNION {{[header |-> <<s_name, s_type, s_lat, s_lng, s_tags>>,
           rows |-> <<PlainRow, SubSeq(PlainRow, 1, k)>>],
          [header |-> <<s_name, s_type, s_lat, s_lng, s_tags>>,
           rows |-> <<SubSeq(PlainRow, 1, k), PlainRow>>]} : k \in 1..4}

\* a header row and at most MaxItems of the rows under it
CsvInputs ==
  UNION {{[header |-> h, rows |-> rows] :
            rows \in SubLists(SetToSeq(CsvRowsFor(h)), MaxItems) \ {<<>>}} :
         h \in CsvHeaders}
    \cup {QuotedRowInput} \cup ShortRowInputs

RECURSIVE JoinCells(_)
JoinCells(cells) ==
  IF cells = <<>> THEN <<>>
  ELSE IF Len(cells) = 1 THEN Head(cells)
  ELSE Head(cells) \o <<",">> \o JoinCells(Tail(cells))

\* the text of a file: the header row and the rows, one per line
CsvTextOf(input) ==
  JoinCells(input.header)
    \o JoinLines([r \in DOMAIN input.rows |->
                    JoinCells([i \in DOMAIN input.rows[r] |-> input.rows[r][i].text])])

NotParsed == [threw |-> FALSE, places |-> <<>>, done |-> FALSE]

\* parseCSV(csvText)
ParseCSV ==
  /\ page = "parseCSV"
  /\ ~csvOutput.done
  /\ LET parsed == parseCSV(CsvTextOf(csvInput))
     IN  csvOutput' =
           [threw |-> parsed.threw, places |-> parsed.places, done |-> TRUE]
  /\ UNCHANGED <<page, lpVars, imVars, smfVars, csvInput>>

\* the variables of a script the page does not run
IdleLoadPlaces ==
  /\ hasContainer = FALSE
  /\ clearBefore = TRUE
  /\ loadsLeft = 0
  /\ calls = <<>>
  /\ mapLayers = {}
  /\ loadPlacesLayers = <<>>
  /\ container = PageContent

IdleInitializeMap ==
  /\ endsWithJson = FALSE
  /\ dataFilter = "none"
  /\ dataPlaces = <<>>
  /\ initialControls = [boxes |-> <<>>, buttons |-> <<>>]
  /\ allPlaces = [defined |-> TRUE, list |-> <<>>]
  /\ markers = <<>>
  /\ listContainer = NoContainer
  /\ typeCheckboxes = <<>>
  /\ tagButtons = <<>>
  /\ filteredPlaces = <<>>
  /\ displayed = <<>>
  /\ response = "pending"
  /\ uncaught = FALSE

IdleSetupMapFilters ==
  /\ filterInputs = [id \in FilterIds |-> "absent"]
  /\ filterButtons = [id \in TagButtonIds |-> "absent"]

IdleParseCSV ==
  /\ csvInput = [header |-> <<>>, rows |-> <<>>]
  /\ csvOutput = NotParsed

\* a page that calls loadPlaces once, with the default clearBefore
InitLoadPlaces ==
  /\ page = "loadPlaces"
  /\ hasContainer \in BOOLEAN
  /\ clearBefore = TRUE
  /\ loadsLeft \in {1, MaxLoads}
  /\ calls = <<>>
  /\ mapLayers = {}
  /\ loadPlacesLayers = <<>>
  /\ container = PageContent
  /\ fetches = 0
  /\ IdleInitializeMap
  /\ IdleSetupMapFilters
  /\ IdleParseCSV

\* a page that calls initializeMap: fetchData() was called and its fetch is
\* in flight
InitInitializeMap ==
  /\ page = "initializeMap"
  /\ IdleLoadPlaces
  /\ fetches = 1
  /\ IdleSetupMapFilters
  /\ IdleParseCSV
  /\ endsWithJson \in BOOLEAN
  /\ dataFilter \in {"none", "noPizzeria"}
  /\ dataPlaces = <<>>
  /\ allPlaces = [defined |-> TRUE, list |-> <<>>]
  /\ markers = <<>>
  /\ listContainer \in {PageContent, NoContainer}
  /\ \E c1 \in BOOLEAN :
       typeCheckboxes = <<[value |-> s_restaurant, checked |-> c1],
                          [value |-> s_pizzeria, checked |-> TRUE]>>
  /\ \E a1 \in BOOLEAN :
       tagButtons = <<[tag |-> s_Veg, active |-> a1],
                      [tag |-> s_baby, active |-> FALSE]>>
  /\ initialControls = [boxes |-> typeCheckboxes, buttons |-> tagButtons]
  /\ filteredPlaces = <<>>
  /\ displayed = <<>>
  /\ response = "pending"
  /\ uncaught = FALSE

\* a page that calls setupMapFilters: every checkbox and button, or the
\* filter-restos checkbox and the filter-baby button alone
InitSetupMapFilters ==
  /\ page = "setupMapFilters"
  /\ hasContainer = TRUE
  /\ clearBefore = TRUE
  /\ loadsLeft = MaxToggles
  /\ calls = <<>>
  /\ mapLayers = {}
  /\ loadPlacesLayers = <<>>
  /\ container = PageContent
  /\ fetches = 0
  /\ IdleInitializeMap
  /\ IdleParseCSV
  /\ \/ /\ filterInputs =
              [id \in FilterIds |->
                 IF id = "filter-restos" THEN "absent" ELSE "checked"]
        /\ filterButtons = [id \in TagButtonIds |-> "inactive"]
     \/ /\ filterInputs =
              [id \in FilterIds |->
                 IF id = "filter-restos" THEN "checked" ELSE "absent"]
        /\ filterButtons =
              [id \in TagButtonIds |->
                 IF id = "filter-baby" THEN "inactive" ELSE "absent"]

\* parseCSV is given a text
InitParseCSV ==
  /\ page = "parseCSV"
  /\ IdleLoadPlaces
  /\ fetches = 0
  /\ IdleInitializeMap
  /\ IdleSetupMapFilters
  /\ csvInput \in CsvInputs
  /\ csvOutput = NotParsed

Init ==
  \/ InitLoadPlaces
  \/ InitInitializeMap
  \/ InitSetupMapFilters
  \/ InitParseCSV

NextLoadPlaces ==
  \/ LoadPlacesCall
  \/ FetchRejects
  \/ HttpNotOk
  \/ JsonRejects
  \/ LoadPlacesResolves

NextInitializeMap ==
  \/ FetchDataRejects
  \/ FetchDataJson
  \/ FetchDataCsv
  \/ CheckboxChange
  \/ TagButtonClick

NextSetupMapFilters ==
  \/ SetupMapFilters
  \/ SetupMapFiltersLoaded
  \/ FilterInputChange
  \/ FilterButtonClick

Next ==
  \/ NextLoadPlaces
  \/ NextInitializeMap
  \/ NextSetupMapFilters
  \/ ParseCSV

Spec == Init /\ [][Next]_vars

(***************************************************************************)
(* The normalizer of loadPlaces, as the documentation describes it.        *)
(***************************************************************************)
Fulfilled(c) == c \in DOMAIN calls /\ calls[c].st = "fulfilled"

CategoryKeys == <<s_brunchs, s_pizzerias, s_restaurants>>

\* the type the documentation gives each category
CategoryType(k) ==
  CASE k = s_brunchs -> Str(s_brunch)
    [] k = s_pizzerias -> Str(s_pizzeria)
    [] k = s_restaurants -> Str(s_restaurant)

\* the item has a type of its own (an empty one counts as none)
HasOwnType(it) == it.type.k = "string" /\ it.type.s # <<>>

Typed(it, default) ==
  [it EXCEPT !.obj = TRUE, !.type = IF HasOwnType(it) THEN it.type ELSE default]

TypedAll(items, default) ==
  IF items = <<>> THEN <<>>
  ELSE [i \in DOMAIN items |-> Typed(items[i], default)]

AllObjects(items) == \A i \in DOMAIN items : items[i].obj

\* the items of the category arrays, in key order then array order
CategoryItems(data) ==
  Concat([j \in DOMAIN CategoryKeys |->
            IF IsArray(Get(data, CategoryKeys[j]))
            THEN TypedAll(Get(data, CategoryKeys[j]).items,
                          CategoryType(CategoryKeys[j]))
            ELSE <<>>])

\* no places array, arrays of objects under category keys
LegacyFormat(data) ==
  /\ ~IsArray(Get(data, s_places))
  /\ \E j \in DOMAIN CategoryKeys : IsArray(Get(data, CategoryKeys[j]))
  /\ \A j \in DOMAIN CategoryKeys : AllObjects(Get(data, CategoryKeys[j]).items)

\* C1: for a legacy-format document, the normalized list is the items of the
\* category arrays, each exactly once, in key order (brunchs, pizzerias,
\* restaurants) then array order, each with its own type if it has one and
\* else the category name without its final s.
C1_LegacyItemsOnceTyped ==
  \A c \in DOMAIN calls :
    (Fulfilled(c) /\ LegacyFormat(calls[c].data)
       /\ CategoryItems(calls[c].data) # <<>>)
      => calls[c].places = CategoryItems(calls[c].data)

\* a legacy document that lists restaurants before brunchs was normalized:
\* the brunch comes first and takes the category type, the restaurant keeps
\* its own type
C1_Witness ==
  \E c \in DOMAIN calls :
    /\ Fulfilled(c) /\ LegacyFormat(calls[c].data)
    /\ Len(calls[c].data) = 2
    /\ calls[c].data[1].key = s_restaurants
    /\ calls[c].data[2].key = s_brunchs
    /\ Len(calls[c].data[1].val.items) = 1
    /\ Len(calls[c].data[2].val.items) = 1
    /\ calls[c].data[1].val.items[1].type = Str(s_ville)
    /\ calls[c].data[2].val.items[1].type = Undef
    /\ Len(calls[c].places) = 2
    /\ calls[c].places[1].type = Str(s_brunch)
    /\ calls[c].places[2].type = Str(s_ville)

\* C2: for a document whose places field is an array, the list loadPlaces
\* returns is that array unchanged, whatever other keys the document has.
C2_GenericIsIdentity ==
  \A c \in DOMAIN calls :
    (Fulfilled(c) /\ IsArray(Get(calls[c].data, s_places)))
      => calls[c].places = Get(calls[c].data, s_places).items

\* a document with a places array holding an item with no type, and a
\* category array with an item beside it, was normalized
C2_Witness ==
  \E c \in DOMAIN calls :
    /\ Fulfilled(c)
    /\ IsArray(Get(calls[c].data, s_places))
    /\ Len(Get(calls[c].data, s_places).items) = 1
    /\ Get(calls[c].data, s_places).items[1].obj
    /\ Get(calls[c].data, s_places).items[1].type = Undef
    /\ IsArray(Get(calls[c].data, s_brunchs))
    /\ Len(Get(calls[c].data, s_brunchs).items) = 1
    /\ Len(calls[c].places) = 1

\* the items of every top-level array of objects, in document order, each
\* with its own type or else the name of its key
ScanItems(data) ==
  IF data = <<>> THEN <<>>
  ELSE Concat([j \in DOMAIN data |->
                 IF IsArray(data[j].val) /\ AllObjects(data[j].val.items)
                 THEN TypedAll(data[j].val.items, Str(data[j].key))
                 ELSE <<>>])

\* a recognized category key holds an array
LegacyApplies(data) ==
  \E j \in DOMAIN CategoryKeys : IsArray(Get(data, CategoryKeys[j]))

\* a recognized category key holds an array that is not empty
LegacyYields(data) ==
  \E j \in DOMAIN CategoryKeys :
    /\ IsArray(Get(data, CategoryKeys[j]))
    /\ Get(data, CategoryKeys[j]).items # <<>>

\* C7 as stated: strict precedence between the places array, the category
\* keys and the scan; the scan is used only when there is neither a places
\* array nor a category key holding an array.
C7_StrictPrecedence ==
  \A c \in DOMAIN calls :
    Fulfilled(c) =>
      calls[c].places =
        IF IsArray(Get(calls[c].data, s_places))
        THEN Get(calls[c].data, s_places).items
        ELSE IF LegacyApplies(calls[c].data)
        THEN CategoryItems(calls[c].data)
        ELSE ScanItems(calls[c].data)

\* C7 amended: the places array alone when it is an array; otherwise the
\* folded category keys when they yield at least one item; otherwise (no
\* places array and no item under a category key, even if a category key
\* holds an empty array) the scan, to which every top-level array of objects
\* contributes all its items.
C7_PrecedenceByYield ==
  \A c \in DOMAIN calls :
    Fulfilled(c) =>
      calls[c].places =
        IF IsArray(Get(calls[c].data, s_places))
        THEN Get(calls[c].data, s_places).items
        ELSE IF LegacyYields(calls[c].data)
        THEN CategoryItems(calls[c].data)
        ELSE ScanItems(calls[c].data)

\* a document with an empty brunchs array and one other array was
\* normalized: the scan ran and the other array's item took its key as type
C7_Witness ==
  \E c \in DOMAIN calls :
    /\ Fulfilled(c)
    /\ ~IsArray(Get(calls[c].data, s_places))
    /\ IsArray(Get(calls[c].data, s_brunchs))
    /\ Get(calls[c].data, s_brunchs).items = <<>>
    /\ IsArray(Get(calls[c].data, s_cafes))
    /\ Len(Get(calls[c].data, s_cafes).items) = 1
    /\ Get(calls[c].data, s_cafes).items[1].obj
    /\ Get(calls[c].data, s_cafes).items[1].type = Undef
    /\ Len(calls[c].places) = 1
    /\ calls[c].places[1].type = Str(s_cafes)

(***************************************************************************)
(* The filter of initializeMap, as the documentation describes it.         *)
(***************************************************************************)
\* the values of the checked type checkboxes
CheckedTypes(boxes) == {boxes[i].value : i \in {j \in DOMAIN boxes : boxes[j].checked}}

\* the tags of the active buttons, without case
ActiveTags(buttons) ==
  {toLowerCase(buttons[j].tag) : j \in {k \in DOMAIN buttons : buttons[k].active}}

\* the tags of a place, without case
LowerTags(place) ==
  IF place.tags.k = "array"
  THEN {toLowerCase(place.tags.a[i]) : i \in DOMAIN place.tags.a}
  ELSE {}

Matches(place, boxes, buttons) ==
  /\ place.type.k = "string"
  /\ place.type.s \in CheckedTypes(boxes)
  /\ ActiveTags(buttons) \subseteq LowerTags(place)

\* the matching places, at their positions, in the order of the list
MatchingSubsequence(places, boxes, buttons) ==
  Pick(places, {i \in DOMAIN places : Matches(places[i], boxes, buttons)})

\* C3: in initializeMap, whenever a checkbox or a tag button changes and a
\* list is loaded, the list applyFilters computes is exactly the
\* order-preserving subsequence of the loaded list made of the places whose
\* type is the value of a checked checkbox and whose tags, compared without
\* case, hold every active tag.
C3_FilterIsMatchingSubsequence ==
  [][(/\ page = "initializeMap"
      /\ allPlaces.defined
      /\ (typeCheckboxes' # typeCheckboxes \/ tagButtons' # tagButtons))
       => filteredPlaces' =
            MatchingSubsequence(allPlaces.list, typeCheckboxes', tagButtons')]_vars

\* the Veg button is active and of a loaded restaurant tagged veg and a
\* pizzeria tagged Veg, the filter kept the pizzeria alone
C3_Witness ==
  /\ page = "initializeMap"
  /\ allPlaces.list = <<MapItems[2], MapItems[3]>>
  /\ tagButtons[1].active
  /\ ~typeCheckboxes[1].checked
  /\ filteredPlaces = <<MapItems[3]>>

(***************************************************************************)
(* Coordinates.                                                            *)
(***************************************************************************)
\* the coordinate is absent, or is no number nor the text of one
MissingOrNotNumeric(v) == v.k \in {"undefined", "null"} \/ Number(v).k = "NaN"

HasCoordinates(p) == ~MissingOrNotNumeric(p.lat) /\ ~MissingOrNotNumeric(p.lng)

\* C4 as stated: no list a filter computes (filteredPlaces of initializeMap,
\* filtered of setupMapFilters) holds a record whose lat or lng is missing or
\* not a number.
C4_FilterOutputHasCoordinates ==
  \A i \in DOMAIN filteredPlaces : HasCoordinates(filteredPlaces[i])

\* C4 amended: with a CSV source, no list the filter of initializeMap
\* computes holds a record whose lat or lng is missing or not a number.
C4_CsvFilterOutputHasCoordinates ==
  (page = "initializeMap" /\ ~endsWithJson)
    => \A i \in DOMAIN filteredPlaces : HasCoordinates(filteredPlaces[i])

\* a CSV text was loaded and the filter, with the pizzeria box unchecked,
\* kept one of its two places
C4_Witness ==
  /\ page = "initializeMap" /\ ~endsWithJson
  /\ response = "ok"
  /\ Len(allPlaces.list) = 2
  /\ ~typeCheckboxes[2].checked
  /\ Len(filteredPlaces) = 1

\* the coordinate loadPlaces reads: lat, or latitude when lat is empty
EitherOf(x, y) == IF Truthy(x) THEN x ELSE y

\* a number other than zero, or the text of one
Renderable(v) == ~MissingOrNotNumeric(v) /\ Number(v) # Num(zero)

\* C5: no marker and no list entry is made for a record whose lat or lng is
\* missing or not a valid number, in loadPlaces and in displayContent, and
\* the records with valid coordinates of the list being rendered all have
\* their marker.
C5_RenderSkipsInvalidOnly ==
  /\ \A c \in DOMAIN calls :
       Fulfilled(c) =>
         /\ \A m \in Range(calls[c].group) :
              /\ ~MissingOrNotNumeric(EitherOf(m.place.lat, m.place.latitude))
              /\ ~MissingOrNotNumeric(EitherOf(m.place.lng, m.place.longitude))
         /\ \A i \in DOMAIN calls[c].places :
              (/\ Renderable(EitherOf(calls[c].places[i].lat, calls[c].places[i].latitude))
               /\ Renderable(EitherOf(calls[c].places[i].lng, calls[c].places[i].longitude)))
                => \E m \in Range(calls[c].group) : m.place = calls[c].places[i]
  /\ \A p \in Range(container.li) :
       /\ ~MissingOrNotNumeric(EitherOf(p.lat, p.latitude))
       /\ ~MissingOrNotNumeric(EitherOf(p.lng, p.longitude))
  /\ \A m \in Range(markers) : HasCoordinates(m.place)
  /\ \A p \in Range(listContainer.li) : HasCoordinates(p)
  /\ \A i \in DOMAIN displayed :
       (Renderable(displayed[i].lat) /\ Renderable(displayed[i].lng))
         => \E m \in Range(markers) : m.place = displayed[i]

(***************************************************************************)
(* Failures of a load.                                                     *)
(***************************************************************************)
\* C6: a load that fails (network error, HTTP response that is not OK, body
\* that cannot be parsed) ends with the list container showing "Impossible
\* de charger les adresses.", without another fetch and with no place of
\* that load rendered, in loadPlaces and in fetchData.
C6_FailureShowsMessage ==
  [][/\ \A c \in DOMAIN calls :
          (calls[c].st = "pending" /\ calls'[c].st = "rejected")
            => /\ hasContainer => container' = Impossible
               /\ calls'[c].group = <<>>
               /\ fetches' = fetches
     /\ (response = "pending" /\ response' \in {"network error", "not ok"})
          => /\ listContainer' \in {Impossible, NoContainer}
             /\ markers' = <<>>]_vars

(***************************************************************************)
(* The type of the records of the normalizers.                             *)
(***************************************************************************)
HasTypeColumn(header) == \E i \in DOMAIN header : header[i] = s_type

\* C8 as stated: every record loadPlaces normalizes and every record
\* parseCSV gives has a string as its type.
C8_TypeAlwaysString ==
  /\ \A c \in DOMAIN calls :
       (Fulfilled(c) /\ ~calls[c].blob)
         => \A i \in DOMAIN calls[c].places :
              calls[c].places[i].obj => calls[c].places[i].type.k = "string"
  /\ csvOutput.done
       => \A i \in DOMAIN csvOutput.places : csvOutput.places[i].type.k = "string"

\* C8 amended: when the document has no places array (the category keys or
\* the scan gave the records), no record has an undefined or null type; and
\* the records of parseCSV have a string as type when the header row has a
\* type column, and no type when it has none.
C8_TypePopulatedWhereDerived ==
  /\ \A c \in DOMAIN calls :
       (Fulfilled(c) /\ ~IsArray(Get(calls[c].data, s_places)))
         => \A i \in DOMAIN calls[c].places :
              calls[c].places[i].type.k \notin {"undefined", "null"}
  /\ csvOutput.done
       => \A i \in DOMAIN csvOutput.places :
            IF HasTypeColumn(csvInput.header)
            THEN csvOutput.places[i].type.k = "string"
            ELSE csvOutput.places[i].type = Undef

\* a document whose only array, under cafes, holds an item with an empty
\* type was normalized: the item took the key as its type
C8_Witness ==
  \E c \in DOMAIN calls :
    /\ Fulfilled(c)
    /\ Len(calls[c].data) = 1
    /\ calls[c].data[1].key = s_cafes
    /\ calls[c].data[1].val = ArrayOf(<<TypedItems[2]>>)
    /\ Len(calls[c].places) = 1
    /\ calls[c].places[1].type = Str(s_cafes)

(***************************************************************************)
(* Filtering twice.                                                        *)
(***************************************************************************)
\* C9: with the controls as they are, filtering what the filter gave gives
\* it again, the same records in the same order; for the filter of
\* initializeMap and the filter of setupMapFilters, on the list they last
\* computed and on what they give for the loaded list.
C9_FilterIdempotent ==
  /\ (page = "initializeMap" /\ allPlaces.defined)
       => LET once == FilterPlaces(allPlaces.list, typeCheckboxes, tagButtons)
          IN  /\ FilterPlaces(once, typeCheckboxes, tagButtons) = once
              /\ FilterPlaces(filteredPlaces, typeCheckboxes, tagButtons)
                   = filteredPlaces
  /\ page = "setupMapFilters"
       => LET once == Filtered(allPlaces.list, filterInputs, filterButtons)
          IN  /\ Filtered(once, filterInputs, filterButtons) = once
              /\ Filtered(filteredPlaces, filterInputs, filterButtons)
                   = filteredPlaces

\* on a page with filters, the pizzeria box is unchecked and the filter kept
\* one of the two loaded places
C9_Witness ==
  /\ page = "setupMapFilters"
  /\ filterInputs["filter-pizzerias"] = "unchecked"
  /\ Len(allPlaces.list) = 2
  /\ Len(filteredPlaces) = 1

(***************************************************************************)
(* Quoted cells.                                                           *)
(***************************************************************************)
\* the field of a place that a header names
FieldNamed(p, h) ==
  CASE h = s_name -> p.name
    [] h = s_type -> p.type
    [] h = s_lat -> p.lat
    [] h = s_lng -> p.lng
    [] h = s_tags -> p.tags

\* the cell is written with a comma and without quotes around it
BareComma(cell) ==
  Head(cell.text) # Q /\ \E i \in DOMAIN cell.text : cell.text[i] = ","

NoBareComma(input) ==
  \A r \in DOMAIN input.rows :
    \A i \in DOMAIN input.rows[r] : ~BareComma(input.rows[r][i])

\* the row has a cell for every column of the header row
FullRow(input, r) == Len(input.rows[r]) = Len(input.header)

FullRows(input) == \A r \in DOMAIN input.rows : FullRow(input, r)

\* C10: for rows that have a cell for every column and whose commas inside
\* cells all lie between quotes, parseCSV gives one place per row, and under
\* every header the place has the value its cell was written for: a quoted
\* cell with commas is one cell, without its quotes, and the cells after it
\* stay under their headers.
C10_QuotedCellsStayWhole ==
  (csvOutput.done /\ NoBareComma(csvInput) /\ FullRows(csvInput))
    => /\ ~csvOutput.threw
       /\ Len(csvOutput.places) = Len(csvInput.rows)
       /\ \A r \in DOMAIN csvInput.rows :
            \A i \in DOMAIN csvInput.header :
              FieldNamed(csvOutput.places[r], csvInput.header[i])
                = csvInput.rows[r][i].value

\* a row whose name is quoted and holds a doubled quote and a comma, and
\* whose latitude and tags are quoted with a comma, was parsed
C10_Witness ==
  /\ csvOutput.done
  /\ Len(csvInput.header) = 5
  /\ \E r \in DOMAIN csvInput.rows :
       /\ csvInput.rows[r][1].value = Str(<<"a"," ",Q,"b",Q,",","c">>)
       /\ csvInput.rows[r][3].text = <<Q,"4","8",",","5","8",Q>>
       /\ csvInput.rows[r][5].value = Arr(<<s_veg, s_baby>>)
       /\ r \in DOMAIN csvOutput.places
       /\ csvOutput.places[r].name = csvInput.rows[r][1].value
       /\ csvOutput.places[r].tags = Arr(<<s_veg, s_baby>>)

(***************************************************************************)
(* Decimal commas.                                                         *)
(***************************************************************************)
\* the cell of a coordinate written with a decimal point
WithPoint(cell) ==
  IF cell.value.k = "number" THEN [cell EXCEPT !.text = cell.value.s] ELSE cell

\* the same text with every coordinate written with a decimal point
PointForm(input) ==
  [input EXCEPT !.rows =
     [r \in DOMAIN input.rows |->
        [i \in DOMAIN input.rows[r] |-> WithPoint(input.rows[r][i])]]]

SameAsPointForm ==
  LET point == parseCSV(CsvTextOf(PointForm(csvInput)))
  IN  /\ csvOutput.threw = point.threw
      /\ csvOutput.places = point.places

\* C11 as stated: whatever way a decimal comma is written in a lat or lng,
\* parseCSV gives the places it gives for the same text with decimal points.
C11_CommaSameAsPoint == csvOutput.done => SameAsPointForm

\* C11 amended: when every lat or lng written with a decimal comma is
\* between double quotes, parseCSV gives the places, coordinates and all
\* other columns, that it gives for the same text with decimal points.
C11_QuotedCommaSameAsPoint ==
  (csvOutput.done /\ NoBareComma(csvInput)) => SameAsPointForm

\* a row with the latitude written "48,58" between quotes was parsed and its
\* place has the latitude 48.58
C11_Witness ==
  /\ csvOutput.done
  /\ Len(csvInput.rows) = 1
  /\ Len(csvInput.header) = 4
  /\ csvInput.rows[1][2].text = <<Q,"4","8",",","5","8",Q>>
  /\ Len(csvOutput.places) = 1
  /\ csvOutput.places[1].lat = Num(n4858)
  /\ csvOutput.places[1].lng = Num(n775)

(***************************************************************************)
(* The documented example row.                                             *)
(***************************************************************************)
\* C12: under the header name,type,lat,lng,tags, the row
\* "A","restaurant","48.58","7.75","veg,baby" is parsed into exactly one
\* place: name A and type restaurant as strings without the quotes, lat 48.58
\* and lng 7.75 as numbers, tags the list of veg and baby.
C12_QuotedRowParsed ==
  (csvOutput.done /\ csvInput = QuotedRowInput)
    => /\ ~csvOutput.threw
       /\ csvOutput.places =
            <<Place(Str(<<"A">>), Str(s_restaurant), Num(n4858), Num(n775),
                    Arr(<<s_veg, s_baby>>))>>

\* the example row was parsed and gave a place
C12_Witness ==
  /\ csvOutput.done
  /\ csvInput = QuotedRowInput
  /\ CsvTextOf(csvInput) =
       s_name \o <<",">> \o s_type \o <<",">> \o s_lat \o <<",">> \o s_lng
         \o <<",">> \o s_tags \o <<"\n">>
         \o <<Q,"A",Q,",",Q>> \o s_restaurant \o <<Q,",",Q>> \o n4858
         \o <<Q,",",Q>> \o n775 \o <<Q,",",Q>> \o s_veg \o <<",">> \o s_baby \o <<Q>>
  /\ Len(csvOutput.places) = 1

(***************************************************************************)
(* What is on display after a toggle.                                      *)
(***************************************************************************)
ToggleEvent ==
  /\ page = "initializeMap"
  /\ typeCheckboxes' # typeCheckboxes \/ tagButtons' # tagButtons

\* the places that have a marker
Rendered(ms) == {ms[i].place : i \in DOMAIN ms}

\* C13: in initializeMap, after every toggle event on a loaded list, the
\* markers and the list entries are those of the places of the loaded list
\* that match the controls as the event left them: nothing else is on
\* display, every matching place with valid coordinates is, and the list
\* shows the places of the markers.
C13_RenderedIsFilterOfLoaded ==
  [][(ToggleEvent /\ allPlaces.defined)
       => LET match == MatchingSubsequence(allPlaces.list, typeCheckboxes', tagButtons')
          IN  /\ Rendered(markers') \subseteq Range(match)
              /\ \A i \in DOMAIN match :
                   (Renderable(match[i].lat) /\ Renderable(match[i].lng))
                     => match[i] \in Rendered(markers')
              /\ listContainer' # NoContainer
                   => Range(listContainer'.li) = Rendered(markers')]_vars

(***************************************************************************)
(* Fetches and toggles.                                                    *)
(***************************************************************************)
FilterToggle ==
  /\ page = "setupMapFilters"
  /\ filterInputs' # filterInputs \/ filterButtons' # filterButtons

\* a step makes a fetch exactly when it starts a load, and then makes one
OneFetchPerLoad ==
  /\ fetches' \in {fetches, fetches + 1}
  /\ fetches' = fetches + 1 <=> Len(calls') = Len(calls) + 1

\* applyFilters of initializeMap made no fetch, and displayContent has run
\* on the list it computed for the controls as the event left them
ToggleIsSynchronous ==
  /\ fetches' = fetches
  /\ response' = response
  /\ allPlaces.defined
       => /\ filteredPlaces' =
               MatchingSubsequence(allPlaces.list, typeCheckboxes', tagButtons')
          /\ displayed' = filteredPlaces'

\* C14 as stated: fetches are made by the load routine alone, one per load,
\* and a toggle event, in initializeMap and in setupMapFilters, makes no
\* fetch and has updated the display when its handler returns.
C14_TogglesAreSynchronous ==
  [][/\ OneFetchPerLoad
     /\ ToggleEvent => ToggleIsSynchronous
     /\ FilterToggle
          => /\ fetches' = fetches
             /\ container' =
                  ListOf(SelectSeq(filteredPlaces', LoadPlacesRenders))]_vars

\* C14 amended: fetches are made by the load routines alone, one per load; a
\* toggle event of initializeMap makes no fetch and has updated the display
\* when its handler returns; a toggle event of setupMapFilters starts a
\* loadPlaces call on the filtered list, which makes one fetch, and leaves
\* the display as it is until that call completes.
C14_InitializeMapTogglesAreSynchronous ==
  [][/\ OneFetchPerLoad
     /\ ToggleEvent => ToggleIsSynchronous
     /\ FilterToggle
          => /\ fetches' = fetches + 1
             /\ calls'[Len(calls')].blob
             /\ calls'[Len(calls')].st = "pending"
             /\ container' = container]_vars

\* initializeMap made its one fetch and a toggle has displayed the list it
\* computed
C14_Witness ==
  /\ page = "initializeMap"
  /\ fetches = 1
  /\ response = "ok"
  /\ filteredPlaces # <<>>
  /\ displayed = filteredPlaces

(***************************************************************************)
(* The place list and its writer.                                          *)
(***************************************************************************)
\* the fetch of fetchData completes
FetchDataCompletes ==
  page = "initializeMap" /\ response = "pending" /\ response' # "pending"

\* the initial loadPlaces call of setupMapFilters resolves
InitialLoadResolves ==
  /\ page = "setupMapFilters"
  /\ Pending(1) /\ ~calls[1].blob
  /\ calls'[1].st = "fulfilled"

\* C15: the place list is assigned only when a data load completes, and a
\* toggle event, with the filter and the render it runs, leaves it as it
\* was: the same records in the same order with the same fields.
C15_SingleWriter ==
  [][/\ allPlaces' # allPlaces => (FetchDataCompletes \/ InitialLoadResolves)
     /\ (ToggleEvent \/ FilterToggle) => allPlaces' = allPlaces]_vars

\* a toggle of initializeMap has kept one of the two loaded places, and the
\* list still holds both
C15_Witness ==
  /\ page = "initializeMap"
  /\ Len(allPlaces.list) = 2
  /\ Len(filteredPlaces) = 1
  /\ Len(markers) = 1

(***************************************************************************)
(* The dataFilter of the page.                                             *)
(***************************************************************************)
\* the places dataFilter lets through, of the list read from the body
DataFiltered ==
  {dataPlaces[i] :
     i \in {j \in DOMAIN dataPlaces :
              dataFilter = "none" \/ dataPlaces[j].type # Str(s_pizzeria)}}

\* C16: in initializeMap, after the load and after every toggle event, every
\* place with a marker or a list entry is one of the places the dataFilter
\* of the page let through, of the list read from the body; without a
\* dataFilter the list kept is the list read.
C16_DataFilterBoundsDisplay ==
  page = "initializeMap"
    => /\ Rendered(markers) \subseteq DataFiltered
       /\ Range(listContainer.li) \subseteq DataFiltered
       /\ Range(filteredPlaces) \subseteq DataFiltered
       /\ (dataFilter = "none" /\ allPlaces.defined) => allPlaces.list = dataPlaces

\* the body held a pizzeria the dataFilter excludes and a restaurant, and
\* after a toggle the restaurant alone is on display
C16_Witness ==
  /\ page = "initializeMap"
  /\ dataFilter = "noPizzeria"
  /\ dataPlaces = <<MapItems[2], MapItems[3]>>
  /\ typeCheckboxes[1].checked /\ typeCheckboxes[2].checked
  /\ filteredPlaces = <<MapItems[2]>>
  /\ Rendered(markers) = {MapItems[2]}

(***************************************************************************)
(* The type checkboxes of setupMapFilters.                                 *)
(***************************************************************************)
\* the checkbox of a type is on the page and is not checked
Unchecked(type) ==
  CASE type = s_pizzeria -> filterInputs["filter-pizzerias"] = "unchecked"
    [] type = s_restaurant ->
         IF filterInputs["filter-restaurants"] # "absent"
         THEN filterInputs["filter-restaurants"] = "unchecked"
         ELSE filterInputs["filter-restos"] = "unchecked"
    [] type = s_fast_food -> filterInputs["filter-fast-food"] = "unchecked"
    [] type = s_cafe -> filterInputs["filter-cafes"] = "unchecked"

TypeOf(p) == IF p.type.k = "string" THEN toLowerCase(p.type.s) ELSE <<>>

NoneOfUncheckedType(types) ==
  page = "setupMapFilters"
    => \A type \in types :
         Unchecked(type)
           => \A i \in DOMAIN filteredPlaces : TypeOf(filteredPlaces[i]) # type

\* C17: in setupMapFilters, for each of the types pizzeria, restaurant,
\* fast-food and café, compared without case, when the checkbox of the type
\* is on the page and unchecked, the filtered list holds no place of that
\* type.
C17_UncheckedTypeIsFilteredOut ==
  NoneOfUncheckedType({s_pizzeria, s_restaurant, s_fast_food, s_cafe})

(***************************************************************************)
(* The entries of the data file on the map.                                *)
(***************************************************************************)
\* an entry with a name and numbers as lat and lng
NamedWithNumbers(p) ==
  p.name.k = "string" /\ p.name.s # <<>> /\ p.lat.k = "number" /\ p.lng.k = "number"

\* the places of the markers of a layer group, in the order they were added
MarkerPlaces(group) ==
  IF group = <<>> THEN <<>> ELSE [i \in DOMAIN group |-> group[i].place]

\* C18: the entries of the normalized list that have a name and numbers as
\* lat and lng, whatever the numbers, are rendered by loadPlaces as one
\* marker each and, when the page has a list container, one list entry each,
\* in the order of the normalized list.
C18_NumericEntriesRendered ==
  \A c \in DOMAIN calls :
    Fulfilled(c) =>
      /\ SelectSeq(MarkerPlaces(calls[c].group), NamedWithNumbers) =
           SelectSeq(calls[c].places, NamedWithNumbers)
      /\ (page = "loadPlaces" /\ hasContainer)
           => SelectSeq(container.li, NamedWithNumbers) =
                SelectSeq(calls[c].places, NamedWithNumbers)

(***************************************************************************)
(* Filtered loads that overlap.                                            *)
(***************************************************************************)
\* the places of the markers of the layer groups attached to the map
OnMap == UNION {Range(MarkerPlaces(calls[c].group)) : c \in mapLayers}

\* the places the load of the most recent toggle renders
LatestRendered ==
  Range(SelectSeq(calls[Len(calls)].places, LoadPlacesRenders))

\* every toggle event started a load and every load has completed
AllLoadsCompleted ==
  /\ page = "setupMapFilters"
  /\ Len(calls) > 1
  /\ \A c \in DOMAIN calls : ~Pending(c)

\* C19: in setupMapFilters, once the loads of all toggle events have
\* completed, in whatever order, the markers on the map and the entries of
\* the list container are those of the filter result of the most recent
\* toggle state, and are the same places.
C19_LatestToggleOnDisplay ==
  AllLoadsCompleted
    => /\ OnMap = LatestRendered
       /\ Range(container.li) = LatestRendered

(***************************************************************************)
(* The failure message and the toggles.                                    *)
(***************************************************************************)
\* C20: in initializeMap, once a failed load has put "Impossible de charger
\* les adresses." in the list container, a toggle event on a type checkbox
\* or a tag button leaves the list container as it is.
C20_FailureMessageStays ==
  [][(ToggleEvent /\ listContainer = Impossible)
       => listContainer' = Impossible]_vars

(***************************************************************************)
(* The initial render and the toggle filter.                               *)
(***************************************************************************)
\* the list displayContent is called with after the load: allPlaces
InitiallyDisplayed == allPlaces.list

\* a toggle event put the controls back as the page gave them
ControlsRestored ==
  /\ ToggleEvent
  /\ typeCheckboxes' = initialControls.boxes
  /\ tagButtons' = initialControls.buttons

\* C21: in initializeMap, the list displayed by the load is the list the
\* toggle filter gives for the loaded list and the controls as the page gave
\* them, and a toggle event that puts the controls back as the page gave
\* them displays the list the load displayed.
C21_InitialRenderIsFiltered ==
  [][/\ (FetchDataCompletes /\ allPlaces'.defined)
          => displayed' =
               MatchingSubsequence(allPlaces'.list, typeCheckboxes', tagButtons')
     /\ (ControlsRestored /\ allPlaces.defined)
          => displayed' = InitiallyDisplayed]_vars

(***************************************************************************)
(* The layer groups of loadPlaces.                                         *)
(***************************************************************************)
\* a step is the start of a call of loadPlaces
CallStarts == Len(calls') = Len(calls) + 1

\* C22: when every call of loadPlaces so far was made with clearBefore true,
\* whether the calls succeeded, failed or overlap, map._loadPlaces_layers
\* holds the layer group of the call started last and nothing else, and no
\* other layer group is attached to the map; a call made with clearBefore
\* false appends its layer group and removes none; the end of a call
\* changes no layer.
C22_LayerGroups ==
  [][/\ (calls' # <<>> /\ \A c \in DOMAIN calls' : calls'[c].clearBefore)
          => /\ loadPlacesLayers' = <<Len(calls')>>
             /\ mapLayers' = {Len(calls')}
     /\ (CallStarts /\ ~calls'[Len(calls')].clearBefore)
          => /\ loadPlacesLayers' = Append(loadPlacesLayers, Len(calls'))
             /\ mapLayers' = mapLayers \cup {Len(calls')}
     /\ ~CallStarts
          => /\ loadPlacesLayers' = loadPlacesLayers
             /\ mapLayers' = mapLayers]_vars

\* two overlapping calls with clearBefore true, the first of which failed:
\* the layer group of the second alone is kept and attached
C22_Witness ==
  /\ page = "loadPlaces"
  /\ Len(calls) = 2
  /\ calls[1].clearBefore /\ calls[2].clearBefore
  /\ calls[1].st = "rejected"
  /\ calls[2].st = "fulfilled"
  /\ loadPlacesLayers = <<2>>
  /\ mapLayers = {2}

(***************************************************************************)
(* Rows shorter than the header row.                                       *)
(***************************************************************************)
\* the place has, under every header, the value the cell of row r was
\* written for
PlaceOfRow(place, input, r) ==
  \A i \in DOMAIN input.header :
    FieldNamed(place, input.header[i]) = input.rows[r][i].value

\* C23: parseCSV raises no error on a text with a header row; a row with
\* fewer cells than the header row has columns gives no place or one place,
\* and every row with a cell for every column gives its place.
C23_ShortRowsDoNotThrow ==
  (csvOutput.done /\ NoBareComma(csvInput))
    => /\ ~csvOutput.threw
       /\ Len(csvOutput.places) <= Len(csvInput.rows)
       /\ \A r \in DOMAIN csvInput.rows :
            FullRow(csvInput, r)
              => \E j \in DOMAIN csvOutput.places :
                   PlaceOfRow(csvOutput.places[j], csvInput, r)
====
